---- MODULE Spec2Model ----
(***************************************************************************)
(* Model of the cron-triggered job generate_whatsapp_draft (src/main.py).  *)
(*                                                                         *)
(* Time is counted in whole minutes since an epoch; a calendar date is the *)
(* day number of an instant.  The two remote tables, matches and           *)
(* message_drafts, are state of the model; every await of the handler      *)
(* (client.get, client.post) is a point where other invocations and the    *)
(* clock may move, so a run is a sequence of atomic steps separated by     *)
(* those awaits.  The server's local date and its UTC clock are taken to   *)
(* be the same clock (the server runs in UTC).  The job only reads the     *)
(* matches table; its owner may edit a row between two steps of the job.   *)
(***************************************************************************)
EXTENDS Integers, Sequences, FiniteSets, Bags, TLC

\* ---------------------------------------------------------------- bounds
ClockStart == 1437          \* first instant of the model: 23:57 of day 0
MaxClock == 1445            \* last instant the clock reaches
\* the instants at which the clock is looked at: around the open instants
\* and around the instants five minutes after them
Instants == {t \in ClockStart..MaxClock : t <= 1439 \/ t >= 1443}
Runs == {"r1", "r2"}        \* invocations that may overlap

\* ------------------------------------------------------ program constants
WindowMinutes == 5
JOB_SECRET == "s3cret"
APP_BASE_URL == "https://app"

Credentials == {"Bearer s3cret", "Bearer wrong", ""}

\* ----------------------------------------------------------- event store
\* A stored timestamp is an ISO string with a UTC offset: a wall-clock
\* reading (minutes) and the offset (minutes) it was written with.
Stamp(wall, off) == [wall |-> wall, off |-> off]

\* "HH:MM:SS" as its characters
StartTime == <<"0", "9", ":", "3", "0", ":", "0", "0">>

MatchA ==
    [id |-> 1, match_date |-> 1, start_time |-> StartTime, location |-> "Oval",
     max_players |-> 22,
     earlybird_open_at |-> Stamp(1438, 0), general_open_at |-> Stamp(1439, 0)]
MatchB ==
    [id |-> 2, match_date |-> 1, start_time |-> StartTime, location |-> "Park",
     max_players |-> 16,
     earlybird_open_at |-> Stamp(1493, 60), general_open_at |-> Stamp(1433, 0)]
MatchC ==
    [id |-> 3, match_date |-> 0, start_time |-> StartTime, location |-> "Nets",
     max_players |-> 12,
     earlybird_open_at |-> Stamp(1427, 0), general_open_at |-> Stamp(1439, 0)]

MatchStores == {{MatchA}, {MatchB}, {MatchC}, {MatchA, MatchC}}

NewLocation == "Hall"

None == [id |-> 0]

VARIABLES
    clock,            \* the current instant, minutes
    matches,          \* table matches of the remote store
    message_drafts,   \* table message_drafts of the remote store, a bag of rows
    pc,               \* per run: where the handler is
    authorization,    \* per run: the Authorization header it was called with
    today,            \* per run: dt.date.today() of the fetch
    match,            \* per run: the fetched match, or None
    now_utc,          \* per run: the instant captured after the fetch
    tasks,            \* per run: the segments to draft, in order
    created,          \* per run: the segments drafted so far
    response,         \* per run: what the caller gets
    calls,            \* per run: the store calls issued, in order
    returned          \* per run: message_drafts as the run left it on success

vars == <<clock, matches, message_drafts, pc, authorization, today, match,
          now_utc, tasks, created, response, calls, returned>>

\* ------------------------------------------------------------ pure parts
Min(a, b) == IF a <= b THEN a ELSE b

\* dt.date.today(): the calendar date of an instant, a day being 1440 minutes
DateOf(t) == t \div 1440

\* dt.datetime.fromisoformat(s.replace("Z", "+00:00")): the absolute instant
\* of a timestamp written with a UTC offset
fromisoformat(ts) == ts.wall - ts.off

\* the window check with its upper end left open
NewlyOpen_HalfOpen(T, now) == T <= now /\ now < T + WindowMinutes

\* a window check that never closes
NewlyOpen_NoEnd(T, now) == T <= now

\* the window check with both ends left open
NewlyOpen_Open(T, now) == T < now /\ now < T + WindowMinutes

\* T <= now_utc <= T + timedelta(minutes=5)
NewlyOpen(T, now) == T <= now /\ now <= T + WindowMinutes

\* window checks that draft both segments as soon as either is newly open
TasksFor_BothWhenAny(m, now) ==
    LET early_open == fromisoformat(m.earlybird_open_at)
        gen_open == fromisoformat(m.general_open_at)
    IN  IF NewlyOpen(early_open, now) \/ NewlyOpen(gen_open, now)
        THEN <<"earlybird", "general">> ELSE <<>>

\* window checks that read the clock again, a minute later, for general
TasksFor_TwoReads(m, now) ==
    LET early_open == fromisoformat(m.earlybird_open_at)
        gen_open == fromisoformat(m.general_open_at)
    IN  (IF NewlyOpen(early_open, now) THEN <<"earlybird">> ELSE <<>>)
        \o (IF NewlyOpen(gen_open, now + 1) THEN <<"general">> ELSE <<>>)

\* window checks in the other order, general first
TasksFor_GeneralFirst(m, now) ==
    LET early_open == fromisoformat(m.earlybird_open_at)
        gen_open == fromisoformat(m.general_open_at)
    IN  (IF NewlyOpen(gen_open, now) THEN <<"general">> ELSE <<>>)
        \o (IF NewlyOpen(early_open, now) THEN <<"earlybird">> ELSE <<>>)

\* the list tasks built from the two window checks, earlybird first
TasksFor(m, now) ==
    LET early_open == fromisoformat(m.earlybird_open_at)
        gen_open == fromisoformat(m.general_open_at)
    IN  (IF NewlyOpen(early_open, now) THEN <<"earlybird">> ELSE <<>>)
        \o (IF NewlyOpen(gen_open, now) THEN <<"general">> ELSE <<>>)

\* a matches query without the match_date filter
get_next_match_NoFilter(store, day) ==
    IF store = {} THEN {None}
    ELSE {m \in store : \A o \in store : m.match_date <= o.match_date}

\* a matches query ordered by match_date descending
get_next_match_Latest(store, day) ==
    LET data == {m \in store : m.match_date >= day}
    IN  IF data = {} THEN {None}
        ELSE {m \in data : \A o \in data : m.match_date >= o.match_date}

\* the rows the matches query can return as data[0]: match_date >= today,
\* ascending by match_date, limit 1 (ties in the store's order); None if empty
get_next_match(store, day) ==
    LET data == {m \in store : m.match_date >= day}
    IN  IF data = {} THEN {None}
        ELSE {m \in data : \A o \in data : m.match_date <= o.match_date}

\* the characters of a string slice put together again
RECURSIVE Join(_)
Join(chars) == IF chars = <<>> THEN "" ELSE Head(chars) \o Join(Tail(chars))

\* a message that gives the spots to both audiences
build_message_SpotsAlways(m, audience) ==
    LET date_str == ToString(m.match_date)
        time_str == Join(SubSeq(m.start_time, 1, Min(5, Len(m.start_time))))
        rsvp_link == APP_BASE_URL \o "/#rsvp?match_id=" \o ToString(m.id)
                        \o "&aud=" \o audience
    IN  << <<IF audience = "earlybird" THEN "Weekend Cricket RSVP (Early Bird)"
                                       ELSE "Weekend Cricket RSVP Open">>,
           <<date_str, "(Sat)", time_str>>,
           <<m.location>>,
           <<"RSVP here:", rsvp_link>>,
           <<"Spots:", ToString(m.max_players), "First come first serve.">> >>

\* a message stamped with the minute it was composed in
build_message_Stamped(m, audience) ==
    << <<"Weekend Cricket RSVP", audience, ToString(clock)>>,
       <<ToString(m.match_date), "(Sat)",
         Join(SubSeq(m.start_time, 1, Min(5, Len(m.start_time))))>>,
       <<m.location>>,
       <<"RSVP here:", APP_BASE_URL \o "/#rsvp?match_id=" \o ToString(m.id)
                          \o "&aud=" \o audience>> >>

\* the message text, line by line; every f-string field is rendered as text
build_message(m, audience) ==
    LET date_str == ToString(m.match_date)
        time_str == Join(SubSeq(m.start_time, 1, Min(5, Len(m.start_time))))
        location == m.location
        spots == ToString(m.max_players)
        rsvp_link == APP_BASE_URL \o "/#rsvp?match_id=" \o ToString(m.id)
                        \o "&aud=" \o audience
    IN  IF audience = "earlybird"
        THEN << <<"Weekend Cricket RSVP (Early Bird)">>,
                <<date_str, "(Sat)", time_str>>,
                <<location>>,
                <<"RSVP here:", rsvp_link>>,
                <<"Early-bird window is open now.">> >>
        ELSE << <<"Weekend Cricket RSVP Open">>,
                <<date_str, "(Sat)", time_str>>,
                <<location>>,
                <<"RSVP here:", rsvp_link>>,
                <<"Spots:", spots, "First come first serve.">> >>

\* a draft body that is not marked ready
Payload_Pending(m, audience) ==
    [match_id |-> m.id, audience |-> audience,
     message_text |-> build_message(m, audience), status |-> "pending"]

\* the JSON body of the draft write
Payload(m, audience) ==
    [match_id |-> m.id, audience |-> audience,
     message_text |-> build_message(m, audience), status |-> "ready"]

SameKey(a, b) == a.match_id = b.match_id /\ a.audience = b.audience

\* a write that inserts without looking for the key
Upsert_Insert(table, row) == table (+) SetToBag({row})

\* a write whose conflict key is match_id alone
Upsert_ByMatch(table, row) ==
    LET hit == {old \in BagToSet(table) : old.match_id = row.match_id}
        kept == [old \in BagToSet(table) \ hit |-> table[old]]
    IN  kept (+) SetToBag({row})

\* POST with Prefer: resolution=merge-duplicates on the unique key
\* (match_id, audience): the rows with the key take the posted columns,
\* otherwise the row is inserted.  A table is a bag of rows.
Upsert(table, row) ==
    LET hit == {old \in BagToSet(table) : SameKey(old, row)}
        kept == [old \in BagToSet(table) \ hit |-> table[old]]
    IN  kept (+) SetToBag({row})

\* a credential check that only asks for a non-empty header
Authorized_NonEmpty(header) == header # ""

\* authorization != f"Bearer {JOB_SECRET}"
Authorized(header) == header = "Bearer " \o JOB_SECRET

\* ------------------------------------------------------------- responses
NoResponse == [status |-> 0]
Unauthorized == [status |-> 401, detail |-> "Unauthorized"]
StoreError == [status |-> 500]
NoUpcoming == [status |-> 200, ok |-> TRUE, message |-> "No upcoming match found"]
\* a summary that forgets the segments it drafted
Summary_Empty(m, made) == [status |-> 200, ok |-> TRUE, match_id |-> m.id, created |-> <<>>]
Summary(m, made) == [status |-> 200, ok |-> TRUE, match_id |-> m.id, created |-> made]

GetCall == [op |-> "GET", table |-> "matches"]
\* a draft write sent to the matches endpoint
PostCall_Matches(row) == [op |-> "POST", table |-> "matches", row |-> row]
PostCall(row) == [op |-> "POST", table |-> "message_drafts", row |-> row]

Terminal == {"idle", "unauthorized", "failed", "done"}

\* ------------------------------------------------------------------ state
Init ==
    /\ clock = ClockStart
    /\ matches \in MatchStores
    /\ message_drafts = EmptyBag
    /\ pc = [r \in Runs |-> "idle"]
    /\ authorization = [r \in Runs |-> ""]
    /\ today = [r \in Runs |-> 0]
    /\ match = [r \in Runs |-> None]
    /\ now_utc = [r \in Runs |-> 0]
    /\ tasks = [r \in Runs |-> <<>>]
    /\ created = [r \in Runs |-> <<>>]
    /\ response = [r \in Runs |-> NoResponse]
    /\ calls = [r \in Runs |-> <<>>]
    /\ returned = [r \in Runs |-> EmptyBag]

\* the clock advances to the next instant
Tick ==
    /\ \E t \in Instants :
        /\ t > clock
        /\ \A u \in Instants : u > clock => t <= u
        /\ clock' = t
    /\ UNCHANGED <<matches, message_drafts, pc, authorization, today, match,
                   now_utc, tasks, created, response, calls, returned>>

\* the owner of the matches table moves a match to another ground; the
\* table is read-only to the job but not to the application around it
EditMatch ==
    /\ \E m \in matches :
        /\ m.location # NewLocation
        /\ matches' = (matches \ {m}) \cup {[m EXCEPT !.location = NewLocation]}
    /\ UNCHANGED <<clock, message_drafts, pc, authorization, today, match,
                   now_utc, tasks, created, response, calls, returned>>

\* a new invocation arrives with a rejected credential: 401, nothing else
Reject(r) ==
    /\ pc[r] \in Terminal
    /\ \E header \in Credentials :
        /\ ~Authorized(header)
        /\ authorization' = [authorization EXCEPT ![r] = header]
    /\ pc' = [pc EXCEPT ![r] = "unauthorized"]
    /\ response' = [response EXCEPT ![r] = Unauthorized]
    /\ today' = [today EXCEPT ![r] = 0]
    /\ match' = [match EXCEPT ![r] = None]
    /\ now_utc' = [now_utc EXCEPT ![r] = 0]
    /\ tasks' = [tasks EXCEPT ![r] = <<>>]
    /\ created' = [created EXCEPT ![r] = <<>>]
    /\ calls' = [calls EXCEPT ![r] = <<>>]
    /\ returned' = [returned EXCEPT ![r] = EmptyBag]
    /\ UNCHANGED <<clock, matches, message_drafts>>

\* a new invocation arrives with the job secret: the matches query is sent
Start(r) ==
    /\ pc[r] \in Terminal
    /\ \E header \in Credentials :
        /\ Authorized(header)
        /\ authorization' = [authorization EXCEPT ![r] = header]
    /\ pc' = [pc EXCEPT ![r] = "get"]
    /\ response' = [response EXCEPT ![r] = NoResponse]
    /\ today' = [today EXCEPT ![r] = DateOf(clock)]
    /\ match' = [match EXCEPT ![r] = None]
    /\ now_utc' = [now_utc EXCEPT ![r] = 0]
    /\ tasks' = [tasks EXCEPT ![r] = <<>>]
    /\ created' = [created EXCEPT ![r] = <<>>]
    /\ calls' = [calls EXCEPT ![r] = <<GetCall>>]
    /\ returned' = [returned EXCEPT ![r] = EmptyBag]
    /\ UNCHANGED <<clock, matches, message_drafts>>

\* the matches query fails: raise_for_status ends the run
GetFail(r) ==
    /\ pc[r] = "get"
    /\ pc' = [pc EXCEPT ![r] = "failed"]
    /\ response' = [response EXCEPT ![r] = StoreError]
    /\ UNCHANGED <<clock, matches, message_drafts, authorization, today, match,
                   now_utc, tasks, created, calls, returned>>

\* the matches query answers: no match ends the run; otherwise the instant
\* is captured, the windows are checked and the first draft write is sent
GetOk(r) ==
    /\ pc[r] = "get"
    /\ \E m \in get_next_match(matches, today[r]) :
        /\ match' = [match EXCEPT ![r] = m]
        /\ IF m = None
           THEN /\ pc' = [pc EXCEPT ![r] = "done"]
                /\ response' = [response EXCEPT ![r] = NoUpcoming]
                /\ UNCHANGED <<now_utc, tasks, calls, returned>>
           ELSE LET todo == TasksFor(m, clock)
                IN  /\ now_utc' = [now_utc EXCEPT ![r] = clock]
                    /\ tasks' = [tasks EXCEPT ![r] = todo]
                    /\ IF todo = <<>>
                       THEN /\ pc' = [pc EXCEPT ![r] = "done"]
                            /\ response' = [response EXCEPT ![r] = Summary(m, <<>>)]
                            /\ returned' = [returned EXCEPT ![r] = message_drafts]
                            /\ UNCHANGED calls
                       ELSE /\ pc' = [pc EXCEPT ![r] = "post"]
                            /\ calls' = [calls EXCEPT ![r] =
                                            Append(@, PostCall(Payload(m, todo[1])))]
                            /\ UNCHANGED <<response, returned>>
    /\ UNCHANGED <<clock, matches, message_drafts, authorization, today, created>>

\* a failing draft write that also takes back the drafts of this run
PostFail_Rollback(r) ==
    /\ pc[r] = "post"
    /\ pc' = [pc EXCEPT ![r] = "failed"]
    /\ response' = [response EXCEPT ![r] = StoreError]
    /\ message_drafts' =
          [d \in {e \in BagToSet(message_drafts) :
                    ~(e.match_id = match[r].id /\ \E i \in 1..Len(created[r]) :
                                                    created[r][i] = e.audience)}
             |-> message_drafts[d]]
    /\ UNCHANGED <<clock, matches, authorization, today, match,
                   now_utc, tasks, created, calls, returned>>

\* a failing draft write that is sent again
PostFail_Retry(r) ==
    /\ pc[r] = "post"
    /\ calls' = [calls EXCEPT ![r] = Append(@, @[Len(@)])]
    /\ UNCHANGED <<clock, matches, message_drafts, pc, authorization, today, match,
                   now_utc, tasks, created, response, returned>>

\* the pending draft write fails: raise_for_status ends the run
PostFail(r) ==
    /\ pc[r] = "post"
    /\ pc' = [pc EXCEPT ![r] = "failed"]
    /\ response' = [response EXCEPT ![r] = StoreError]
    /\ UNCHANGED <<clock, matches, message_drafts, authorization, today, match,
                   now_utc, tasks, created, calls, returned>>

\* the pending draft write succeeds: the store merges the row, the segment
\* is recorded, and the loop sends the next write or the run returns
PostOk(r) ==
    /\ pc[r] = "post"
    /\ LET audience == tasks[r][Len(created[r]) + 1]
           made == Append(created[r], audience)
       IN  /\ message_drafts' = Upsert(message_drafts, Payload(match[r], audience))
           /\ created' = [created EXCEPT ![r] = made]
           /\ IF Len(made) < Len(tasks[r])
              THEN /\ calls' = [calls EXCEPT ![r] =
                          Append(@, PostCall(Payload(match[r], tasks[r][Len(made) + 1])))]
                   /\ UNCHANGED <<pc, response, returned>>
              ELSE /\ pc' = [pc EXCEPT ![r] = "done"]
                   /\ response' = [response EXCEPT ![r] = Summary(match[r], made)]
                   /\ returned' = [returned EXCEPT ![r] = message_drafts']
                   /\ UNCHANGED calls
    /\ UNCHANGED <<clock, matches, authorization, today, match, now_utc, tasks>>

Next ==
    \/ Tick
    \/ EditMatch
    \/ \E r \in Runs : Reject(r)
    \/ \E r \in Runs : Start(r)
    \/ \E r \in Runs : GetFail(r)
    \/ \E r \in Runs : GetOk(r)
    \/ \E r \in Runs : PostFail(r)
    \/ \E r \in Runs : PostOk(r)

Spec == Init /\ [][Next]_vars

TypeOK ==
    /\ clock \in ClockStart..MaxClock
    /\ \A m \in matches : m.id \in {1, 2, 3}
    /\ \A r \in Runs :
        /\ pc[r] \in Terminal \cup {"get", "post"}
        /\ authorization[r] \in Credentials
        /\ Len(created[r]) <= Len(tasks[r])
        /\ Len(tasks[r]) <= 2

\* ------------------------------------------------------------ properties
Segments == {"earlybird", "general"}
Range(seq) == {seq[i] : i \in 1..Len(seq)}

\* the absolute open instant of a segment's window, from the stored stamp
OpenInstant(m, S) ==
    IF S = "earlybird"
    THEN m.earlybird_open_at.wall - m.earlybird_open_at.off
    ELSE m.general_open_at.wall - m.general_open_at.off

\* the run has fetched a match and decided what to draft
Evaluated(r) == pc[r] \in {"post", "done", "failed"} /\ match[r] # None

Drafts == BagToSet(message_drafts)

\* C1: in every authorized run that fetched a match, a segment with open
\* instant T is selected for drafting exactly when T <= now <= T + 5 minutes,
\* both ends included.
C1_WindowClosedInterval ==
    \A r \in Runs : Evaluated(r) =>
        \A S \in Segments :
            LET T == OpenInstant(match[r], S)
            IN  (S \in Range(tasks[r])) <=> (T <= now_utc[r] /\ now_utc[r] <= T + 5)

\* one run took its instant exactly at an open instant, another exactly five
\* minutes after one, and each selected that segment and not the other
C1_Witness ==
    \E r1, r2 \in Runs :
        /\ Evaluated(r1) /\ Evaluated(r2)
        /\ now_utc[r1] = OpenInstant(match[r1], "earlybird")
        /\ tasks[r1] = <<"earlybird">>
        /\ now_utc[r2] = OpenInstant(match[r2], "general") + 5
        /\ tasks[r2] = <<"general">>

\* C2: a run whose credential is missing or is not the job secret ends with
\* 401 Unauthorized, issues no store call, and its steps leave both tables
\* as they are.
C2_UnauthorizedNoStoreCall ==
    /\ [](\A r \in Runs : authorization[r] # "Bearer s3cret" =>
            /\ pc[r] \in {"idle", "unauthorized"}
            /\ calls[r] = <<>>
            /\ pc[r] = "unauthorized" => response[r] = Unauthorized)
    /\ [][\A r \in Runs :
            (authorization'[r] # "Bearer s3cret" /\ pc'[r] # pc[r])
                => UNCHANGED <<matches, message_drafts>>]_vars

\* a run was rejected for a wrong secret and another for a missing header
\* while drafts were in the store
C2_Witness ==
    \E r1, r2 \in Runs :
        /\ pc[r1] = "unauthorized" /\ authorization[r1] = "Bearer wrong"
        /\ pc[r2] = "unauthorized" /\ authorization[r2] = ""
        /\ message_drafts # EmptyBag

\* C3: whatever runs have happened and however their store calls
\* interleaved, the draft table holds at most one row per
\* (match_id, audience).
C3_OneDraftPerKey ==
    \A d \in Drafts :
        /\ message_drafts[d] = 1
        /\ \A e \in Drafts : SameKey(d, e) => d = e

\* two overlapping runs have both written the same two keys
C3_Witness ==
    \E r1, r2 \in Runs :
        /\ r1 # r2
        /\ match[r1] # None /\ match[r1] = match[r2]
        /\ created[r1] = <<"earlybird", "general">> /\ pc[r1] = "done"
        /\ created[r2] = <<"earlybird", "general">> /\ pc[r2] = "done"
        /\ Len(calls[r1]) = 3 /\ Cardinality(Drafts) = 2

\* the run answered 200 for a match it fetched
Succeeded(r) == pc[r] = "done" /\ match[r] # None

InWindow(m, S, now) == OpenInstant(m, S) <= now /\ now <= OpenInstant(m, S) + 5

\* the number of rows of a table with a key
Copies(table, id, S) ==
    LET hit == {d \in BagToSet(table) : d.match_id = id /\ d.audience = S}
    IN  BagCardinality([d \in hit |-> table[d]])

\* the draft writes a run has issued, in order
Posts(r) == SelectSeq(calls[r], LAMBDA c : c.op = "POST")
PostsFor(r, S) == SelectSeq(calls[r], LAMBDA c : c.op = "POST" /\ c.row.audience = S)

C5_WritesOnlyNewlyOpen ==
    \A r \in Runs : \A S \in Segments :
        /\ PostsFor(r, S) # <<>> =>
              (match[r] # None /\ InWindow(match[r], S, now_utc[r]))
        /\ Succeeded(r) =>
              Len(PostsFor(r, S)) = (IF InWindow(match[r], S, now_utc[r]) THEN 1 ELSE 0)

\* one run found both windows opened ten minutes ago and wrote nothing; another found both newly open and wrote twice
C5_Witness ==
    \E r1, r2 \in Runs :
        /\ Succeeded(r1) /\ Posts(r1) = <<>>
        /\ \A S \in Segments : now_utc[r1] = OpenInstant(match[r1], S) + 10
        /\ Succeeded(r2) /\ Len(Posts(r2)) = 2

\* C6: a run that returns 200 for a match reports that match's id and, as
\* created, exactly the segments whose draft writes it performed, in order;
\* each of them has a draft in the table.
C6_ReportsExactlyTheWrites ==
    \A r \in Runs : Succeeded(r) =>
        /\ response[r].status = 200
        /\ response[r].match_id = match[r].id
        /\ Len(response[r].created) = Len(Posts(r))
        /\ \A i \in 1..Len(Posts(r)) :
              /\ response[r].created[i] = Posts(r)[i].row.audience
              /\ Copies(message_drafts, match[r].id, Posts(r)[i].row.audience) >= 1

\* only the earlybird window was newly open: the run reports [earlybird]
\* and the table holds one draft, for earlybird
C6_Witness ==
    \E r \in Runs :
        /\ Succeeded(r)
        /\ response[r].created = <<"earlybird">>
        /\ BagCardinality(message_drafts) = 1
        /\ \A d \in Drafts : d.audience = "earlybird" /\ d.match_id = match[r].id

\* C7: when the matches query of an authorized run finds no match dated
\* today or later, the run returns 200 "No upcoming match found", has issued
\* no draft write, and leaves the draft table as it was.
C7_NoUpcomingIsNoOp ==
    /\ [](\A r \in Runs : (pc[r] = "done" /\ match[r] = None) =>
            /\ response[r] = NoUpcoming
            /\ calls[r] = <<GetCall>>
            /\ created[r] = <<>>)
    /\ [][\A r \in Runs :
            (/\ pc[r] = "get" /\ pc'[r] \notin {"get", "failed"}
             /\ \A m \in matches : m.match_date < today[r])
            => /\ pc'[r] = "done" /\ response'[r] = NoUpcoming
               /\ calls'[r] = <<GetCall>>
               /\ message_drafts' = message_drafts]_vars

\* a run found only a match of yesterday in the table and returned the
\* no-op result while a draft was in the store
C7_Witness ==
    \E r \in Runs :
        /\ pc[r] = "done" /\ response[r] = NoUpcoming
        /\ matches # {} /\ \A m \in matches : m.match_date < today[r]
        /\ message_drafts # EmptyBag

\* C8: a run whose store call fails ends there with the store's error: the
\* failed call is its last, no call was issued twice, the drafts it wrote
\* before are still in the table, and the failing step itself changes
\* neither the table nor the calls.
C8_FailureAbortsWithoutRollback ==
    /\ [](\A r \in Runs : pc[r] = "failed" =>
            /\ response[r] = StoreError
            /\ Len(calls[r]) = (IF match[r] = None THEN 1 ELSE Len(created[r]) + 2)
            /\ \A i, j \in 1..Len(calls[r]) : calls[r][i] = calls[r][j] => i = j
            /\ \A i \in 1..Len(created[r]) :
                  Copies(message_drafts, match[r].id, created[r][i]) = 1)
    /\ [][\A r \in Runs :
            /\ (pc[r] \in {"get", "post"} /\ pc'[r] = "failed")
                  => (message_drafts' = message_drafts /\ calls'[r] = calls[r])
            /\ (pc[r] = "failed" /\ pc'[r] = "failed") => calls'[r] = calls[r]]_vars

\* a run wrote the earlybird draft, failed on the general one, and the
\* earlybird draft is in the table without a general one
C8_Witness ==
    \E r \in Runs :
        /\ pc[r] = "failed"
        /\ tasks[r] = <<"earlybird", "general">> /\ created[r] = <<"earlybird">>
        /\ Copies(message_drafts, match[r].id, "earlybird") = 1
        /\ Copies(message_drafts, match[r].id, "general") = 0

\* C9 as stated: a draft, once in the table, stays there with the message
\* text and status it has.
C9_DraftNeverUpdated ==
    [][\A d \in BagToSet(message_drafts) : d \in BagToSet(message_drafts')]_vars

\* C10: every draft in the table, and every draft a run has sent, has status
\* "ready", an audience among earlybird and general, and the id of the match
\* the writing run fetched.
C10_DraftShape ==
    /\ \A d \in Drafts :
          /\ d.status = "ready"
          /\ d.audience \in Segments
          /\ \E m \in matches : m.id = d.match_id
    /\ \A r \in Runs : \A i \in 1..Len(Posts(r)) :
          /\ Posts(r)[i].row.status = "ready"
          /\ Posts(r)[i].row.audience \in Segments
          /\ match[r] # None /\ Posts(r)[i].row.match_id = match[r].id

\* drafts of two matches and of both segments are in the table
C10_Witness ==
    \E d, e \in Drafts :
        /\ d.match_id # e.match_id
        /\ \E f \in Drafts : f.match_id = d.match_id /\ f.audience # d.audience

\* a message names a piece of text on one of its lines
Mentions(text, piece) ==
    \E i \in 1..Len(text) : \E j \in 1..Len(text[i]) : text[i][j] = piece

\* C11: every message a run posts names the match's date, its start time
\* as hour:minute, its location and an RSVP link carrying the match id and
\* the segment; it names the capacity exactly when the segment is general,
\* and the earlybird message says that the early-bird window is open.  A run
\* that returns with both windows newly open has posted both messages.
C11_MessagesDifferByAudience ==
    \A r \in Runs :
        /\ \A i \in 1..Len(Posts(r)) :
              LET S == Posts(r)[i].row.audience
                  text == Posts(r)[i].row.message_text
                  m == match[r]
              IN  /\ Mentions(text, ToString(m.max_players)) <=> (S = "general")
                  /\ Mentions(text, "Early-bird window is open now.") <=> (S = "earlybird")
                  /\ Mentions(text, ToString(m.match_date))
                  /\ Mentions(text, "09:30")
                  /\ ~Mentions(text, "09:30:00")
                  /\ Mentions(text, m.location)
                  /\ Mentions(text, "https://app/#rsvp?match_id=" \o ToString(m.id)
                                        \o "&aud=" \o S)
        /\ (/\ Succeeded(r)
            /\ \A S \in Segments : InWindow(match[r], S, now_utc[r]))
           => /\ Len(Posts(r)) = 2
              /\ Posts(r)[1].row.message_text # Posts(r)[2].row.message_text

\* a run found both windows newly open and both of its drafts are stored
C11_Witness ==
    \E r \in Runs :
        /\ Succeeded(r)
        /\ \A S \in Segments : InWindow(match[r], S, now_utc[r])
        /\ \A i \in 1..2 : Posts(r)[i].row \in Drafts

\* C12: the message is a function of the match record and the segment
\* alone: two draft writes for the same record and segment, issued at
\* whatever instants, with whatever drafts stored and after whatever
\* earlier writes, carry the same text.
C12_SameInputsSameMessage ==
    \A r1, r2 \in Runs :
        \A i \in 1..Len(Posts(r1)) : \A j \in 1..Len(Posts(r2)) :
            (match[r1] = match[r2]
             /\ Posts(r1)[i].row.audience = Posts(r2)[j].row.audience)
            => Posts(r1)[i].row.message_text = Posts(r2)[j].row.message_text

\* two runs composed the general message of one record at different
\* instants, one as its second message with one draft stored, the other
\* later as its only message with both drafts stored
C12_Witness ==
    \E r1, r2 \in Runs :
        /\ Succeeded(r1) /\ Succeeded(r2)
        /\ match[r1] = match[r2]
        /\ now_utc[r1] < now_utc[r2]
        /\ Len(Posts(r1)) = 2 /\ Len(Posts(r2)) = 1
        /\ Posts(r2)[1].row.audience = "general"
        /\ Posts(r1)[2].row = Posts(r2)[1].row

\* the calls of a run that read the matches table
Reads(r) == SelectSeq(calls[r], LAMBDA c : c.table = "matches")

\* C13: a run never changes the matches table: a step of a run leaves it
\* as it is, an authorized run queries it exactly once, with a GET, and
\* every write of a run is a POST to message_drafts.
C13_MatchesReadOnceNeverWritten ==
    /\ [](\A r \in Runs :
            /\ pc[r] \in {"get", "post", "done", "failed"} => Len(Reads(r)) = 1
            /\ \A i \in 1..Len(calls[r]) :
                  /\ calls[r][i].table = "matches" => calls[r][i].op = "GET"
                  /\ calls[r][i].op # "GET" =>
                        (calls[r][i].op = "POST" /\ calls[r][i].table = "message_drafts"))
    /\ [][(\E r \in Runs : pc'[r] # pc[r] \/ calls'[r] # calls[r]
                              \/ created'[r] # created[r])
            => matches' = matches]_vars

\* a run has fetched once and written twice, and the table was edited by
\* its owner while the run was going on
C13_Witness ==
    \E r \in Runs :
        /\ Succeeded(r) /\ Len(calls[r]) = 3
        /\ match[r] \notin matches

\* C14: a run takes its instant once: both window checks are decided
\* against now_utc, which stays as captured while the run goes on and the
\* clock moves; so for a match whose two windows open at the same instant
\* a run selects both segments or neither.
C14_OneInstantPerRun ==
    /\ [](\A r \in Runs : Evaluated(r) =>
            /\ now_utc[r] <= clock
            /\ \A S \in Segments :
                  (\E i \in 1..Len(tasks[r]) : tasks[r][i] = S)
                      <=> InWindow(match[r], S, now_utc[r])
            /\ OpenInstant(match[r], "earlybird") = OpenInstant(match[r], "general")
                  => tasks[r] \in {<<>>, <<"earlybird", "general">>})
    /\ [][\A r \in Runs : pc[r] = "post" =>
            (now_utc'[r] = now_utc[r] /\ tasks'[r] = tasks[r])]_vars

\* a run took its instant at the last minute of two windows that opened
\* together, selected both, and is writing the second draft after the clock
\* has moved past the windows
C14_Witness ==
    \E r \in Runs :
        /\ pc[r] = "post" /\ created[r] = <<"earlybird">>
        /\ OpenInstant(match[r], "earlybird") = OpenInstant(match[r], "general")
        /\ now_utc[r] = OpenInstant(match[r], "general") + 5
        /\ clock > now_utc[r]
        /\ tasks[r] = <<"earlybird", "general">>

\* C15: an authorized run is one GET of matches followed by at most two
\* POSTs: nothing is written while the GET is pending or when it failed or
\* found no match, a POST is sent only when every POST before it has
\* succeeded, no call is sent twice, and no segment is written twice.
C15_OneFetchThenSequentialWrites ==
    \A r \in Runs : pc[r] \in {"get", "post", "done", "failed"} =>
        /\ calls[r] # <<>> /\ calls[r][1] = GetCall
        /\ \A i \in 2..Len(calls[r]) : calls[r][i].op = "POST"
        /\ Len(Posts(r)) <= 2
        /\ (pc[r] = "get" \/ match[r] = None) => Len(calls[r]) = 1
        /\ Len(Posts(r)) = Len(created[r])
               + (IF pc[r] = "post" \/ (pc[r] = "failed" /\ match[r] # None)
                  THEN 1 ELSE 0)
        /\ \A S \in Segments : Len(PostsFor(r, S)) <= 1

\* one run has fetched and written twice while the other waits for the
\* answer to its first write
C15_Witness ==
    \E r1, r2 \in Runs :
        /\ pc[r1] = "done" /\ Len(calls[r1]) = 3 /\ Len(created[r1]) = 2
        /\ pc[r2] = "post" /\ Len(calls[r2]) = 2 /\ created[r2] = <<>>

\* the window of segment S of match m has gone by without a draft, and no
\* run that selected it is still writing
Missed(m, S) ==
    /\ clock > OpenInstant(m, S) + 5
    /\ Copies(message_drafts, m.id, S) = 0
    /\ \A r \in Runs : pc[r] = "post" =>
          ~(match[r].id = m.id /\ \E i \in 1..Len(tasks[r]) : tasks[r][i] = S)

\* C16: a window that has gone by without a draft is missed for good: no
\* later run creates the draft.  (That such a state is reached by runs more
\* than five minutes apart, all of them successful, is the witness.)
C16_MissedWindowStaysMissed ==
    [][\A m \in matches : \A S \in Segments :
          Missed(m, S) =>
              /\ Copies(message_drafts', m.id, S) = 0
              /\ \A r \in Runs : (pc'[r] = "post" /\ match'[r].id = m.id)
                    => \A i \in 1..Len(tasks'[r]) : tasks'[r][i] # S]_vars

\* two successful runs for one match, more than five minutes apart, one
\* before the earlybird window opened and one after it closed: the window
\* is missed although no run failed
C16_Witness ==
    \E r1, r2 \in Runs : \E m \in matches :
        /\ Succeeded(r1) /\ Succeeded(r2)
        /\ match[r1].id = m.id /\ match[r2].id = m.id
        /\ now_utc[r1] < OpenInstant(m, "earlybird")
        /\ now_utc[r2] > OpenInstant(m, "earlybird") + 5
        /\ now_utc[r2] - now_utc[r1] > 5
        /\ Missed(m, "earlybird")

\* ------------------------------------------------- the job under a cron
\* The scheduler calls the job so that no closed five-minute interval goes
\* by without a run taking its instant in it, and the store answers every
\* call.  The matches table is left as it is while the windows are covered.

\* the latest instant a run has taken (0 when none has)
LastCapture == CHOOSE t \in {now_utc[r] : r \in Runs} : \A r \in Runs : now_utc[r] <= t

\* the clock advances, never more than five minutes past the latest instant
\* a run has taken
TickCovered ==
    /\ Tick
    /\ clock' <= LastCapture + WindowMinutes

NextCovered ==
    \/ TickCovered
    \/ \E r \in Runs : Reject(r)
    \/ \E r \in Runs : Start(r)
    \/ \E r \in Runs : GetOk(r)
    \/ \E r \in Runs : PostOk(r)

\* time goes on, the scheduler keeps calling, and a pending store call is
\* answered
SpecCovered ==
    /\ Init /\ [][NextCovered]_vars
    /\ SF_vars(TickCovered)
    /\ \A r \in Runs : WF_vars(Start(r)) /\ WF_vars(GetOk(r)) /\ WF_vars(PostOk(r))

MatchIds == {m.id : m \in UNION MatchStores}
Days == {t \div 1440 : t \in Instants}

\* the match is the one the query returns on every day of the model
NextThroughout(m) ==
    \A d \in Days :
        /\ m.match_date >= d
        /\ \A o \in matches : o.id # m.id => (o.match_date < d \/ o.match_date > m.match_date)

\* C17: under such a scheduler, with every store call answered, each
\* segment of a match that is the next upcoming one throughout gets its
\* draft.
C17_CoveredWindowGetsDraft ==
    \A id \in MatchIds : \A S \in Segments :
        (\E m \in matches : m.id = id /\ NextThroughout(m))
            ~> (Copies(message_drafts, id, S) = 1)

\* the clock has reached its last instant under the scheduler and both
\* drafts of the next upcoming match are stored
C17_Witness ==
    \E m \in matches :
        /\ NextThroughout(m)
        /\ clock = MaxClock
        /\ \A S \in Segments : Copies(message_drafts, m.id, S) = 1

\* C18: when both windows are newly open the earlybird draft is sent and
\* stored before the general draft is sent, and the run reports
\* [earlybird, general]; a run can fail with earlybird written and general
\* not, but a run that has sent the general draft with the earlybird window
\* newly open has written earlybird before.
C18_EarlybirdBeforeGeneral ==
    \A r \in Runs : Evaluated(r) =>
        /\ (\A S \in Segments : InWindow(match[r], S, now_utc[r])) =>
              /\ Posts(r)[1].row.audience = "earlybird"
              /\ Len(Posts(r)) = 2 => Posts(r)[2].row.audience = "general"
              /\ pc[r] = "done" => response[r].created = <<"earlybird", "general">>
        /\ (PostsFor(r, "general") # <<>>
            /\ InWindow(match[r], "earlybird", now_utc[r]))
              => (created[r] # <<>> /\ created[r][1] = "earlybird")

\* one run has written both drafts and reported them in order; another has
\* written earlybird and failed on general
C18_Witness ==
    \E r1, r2 \in Runs :
        /\ Succeeded(r1) /\ response[r1].status = 200
        /\ response[r1].created = <<"earlybird", "general">>
        /\ pc[r2] = "failed" /\ Len(Posts(r2)) = 2
        /\ created[r2] = <<"earlybird">>

\* C19: the match of a run is one of the earliest among the matches dated
\* on or after the run's today, every draft the run writes is for that
\* match, and a run writes nothing for another upcoming match, whether or
\* not that one's window is newly open.
C19_OnlyTheNextMatch ==
    \A r \in Runs : Evaluated(r) =>
        /\ match[r].match_date >= today[r]
        /\ \A m \in matches :
              /\ m.match_date >= today[r] => match[r].match_date <= m.match_date
              /\ m.id # match[r].id =>
                    \A i \in 1..Len(calls[r]) :
                        calls[r][i].op = "POST" => calls[r][i].row.match_id # m.id
        /\ \A i \in 1..Len(calls[r]) :
              calls[r][i].op = "POST" => calls[r][i].row.match_id = match[r].id

\* two matches are upcoming; a run fetched the earlier one and returned
\* while the earlybird window of the later one was newly open, and no draft
\* of the later one exists
C19_Witness ==
    \E r \in Runs : \E m \in matches :
        /\ Succeeded(r)
        /\ m.id # match[r].id
        /\ m.match_date >= today[r] /\ m.match_date > match[r].match_date
        /\ InWindow(m, "earlybird", now_utc[r])
        /\ \A d \in Drafts : d.match_id # m.id

====
